---------------------------- MODULE Spec2Model ----------------------------
(***************************************************************************)
(* A model of node-rsync (src/src/index.ts): the Rsync class, which turns  *)
(* an options object into an rsync command line (constructor,              *)
(* _processOptions, args, command) and runs it in a child process whose    *)
(* 'data', 'close' and 'error' notifications settle a promise (execute).   *)
(*                                                                         *)
(* A JavaScript string is modelled as the sequence of its characters, each *)
(* character a one-character TLA+ string, so that escaping, joining and    *)
(* formatting are computed character by character as the code does.        *)
(***************************************************************************)
EXTENDS Integers, Sequences, FiniteSets, TLC

VARIABLES
    platform,   \* process.platform, read by execute() and escapeFileArg()
    inst,       \* the Rsync instances: the private fields of each
    ctorArg,    \* the argument each instance's constructor was called with
    thrown,     \* what each constructor call threw ("none" if it returned)
    lastArgs,   \* the value returned by the last args() call
    lastCmd,    \* the value returned by the last command() call
    lastStr,    \* the value returned by the last toString() call
    calls,      \* one record per execute() call: its child process and promise
    sinkLog     \* for every output handler, the chunks it was invoked with

vars == <<platform, inst, ctorArg, thrown, lastArgs, lastCmd, lastStr, calls,
          sinkLog>>

-----------------------------------------------------------------------------
(* Bounds of the model.                                                    *)

MaxFlags == 2      \* longest `flags` string drawn as an input
MaxChunks == 2     \* chunks the children write in one behaviour
MaxPush == 1       \* caller pushes onto the array returned by source()
MaxLen == 3        \* longest string given to the escaping functions
MaxSegs == 2       \* most segments of a drive-rooted path

CallIds == {1, 2}  \* the execute() calls of one behaviour

-----------------------------------------------------------------------------
(* JavaScript values.                                                      *)

Undef == [t |-> "undefined"]
Null == [t |-> "null"]
Str(s) == [t |-> "string", v |-> s]
Arr(a) == [t |-> "array", v |-> a]
Bool(b) == [t |-> "boolean", v |-> b]
Num(n) == [t |-> "number", v |-> n]
Fn(h) == [t |-> "function", v |-> h]
Obj(o) == [t |-> "object", v |-> o]

\* The typeof operator: null and arrays are "object".
TypeOf(x) ==
    IF x.t \in {"null", "array", "object"} THEN "object" ELSE x.t

IsArray(x) == x.t = "array"

\* ToBoolean: undefined, null, false, 0 and "" are falsy, all else truthy.
Truthy(x) ==
    CASE x.t = "undefined" -> FALSE
      [] x.t = "null" -> FALSE
      [] x.t = "boolean" -> x.v
      [] x.t = "number" -> x.v # 0
      [] x.t = "string" -> x.v # <<>>
      [] OTHER -> TRUE

\* An object with ordered own properties: the sequence of <<key, value>>
\* pairs in the order the properties were created, keys distinct.
HasKey(o, k) == \E i \in 1..Len(o) : o[i][1] = k

\* o[k] = v: an existing property keeps its place, a new one goes last.
SetProp(o, k, v) ==
    IF HasKey(o, k)
    THEN [i \in 1..Len(o) |-> IF o[i][1] = k THEN <<k, v>> ELSE o[i]]
    ELSE Append(o, <<k, v>>)

Digits == <<"0", "1", "2", "3", "4", "5", "6", "7", "8", "9">>

IsDigit(c) == \E d \in 1..Len(Digits) : Digits[d] = c

DigitVal(c) == (CHOOSE d \in 1..Len(Digits) : Digits[d] = c) - 1

\* A property key that is a canonical array index ("0", "7", "42", never
\* "07"): such keys are enumerated first, in ascending numeric order.
IsIndexKey(k) ==
    /\ Len(k) > 0
    /\ \A i \in 1..Len(k) : IsDigit(k[i])
    /\ (Len(k) > 1 => k[1] # "0")

RECURSIVE KeyNum(_)
KeyNum(k) ==
    IF k = <<>> THEN 0
    ELSE 10 * KeyNum(SubSeq(k, 1, Len(k) - 1)) + DigitVal(k[Len(k)])

RECURSIVE SortIndexEntries(_)
SortIndexEntries(es) ==
    IF es = <<>> THEN <<>>
    ELSE LET m == CHOOSE i \in 1..Len(es) :
                      \A j \in 1..Len(es) : KeyNum(es[i][1]) <= KeyNum(es[j][1])
         IN <<es[m]>> \o
            SortIndexEntries([i \in 1..(Len(es) - 1) |->
                                 IF i < m THEN es[i] ELSE es[i + 1]])

IsIndexEntry(e) == IsIndexKey(e[1])
IsNamedEntry(e) == ~IsIndexKey(e[1])

\* Object.entries(o): the own properties in the engine's enumeration order,
\* integer-index keys ascending, then the other keys in creation order.
ObjectEntries(o) ==
    SortIndexEntries(SelectSeq(o, IsIndexEntry)) \o SelectSeq(o, IsNamedEntry)

-----------------------------------------------------------------------------
(* Escaping and rendering of one option (index.ts, the module functions).  *)

BACKSLASH == "\\"
DQUOTE == "\""
BACKTICK == "backtick"   \* the character U+0060, which a TLA+ string cannot hold

\* The character class of escapeShellArg's replace(): double quote, single
\* quote, backtick, backslash, dollar.
ShellSpecial == {DQUOTE, "'", BACKTICK, BACKSLASH, "$"}

\* \s of a JavaScript regular expression, for the characters of the model.
Whitespace == {" ", "\t", "\n", "\r", "\f"}

\* The character class of escapeFileArg's replace(): the same, the two
\* parentheses and \s.
FileSpecial == ShellSpecial \cup {"(", ")"} \cup Whitespace

\* [A-Z] under the i flag.
Letters ==
    {"a", "b", "c", "d", "e", "f", "g", "h", "i", "j", "k", "l", "m",
     "n", "o", "p", "q", "r", "s", "t", "u", "v", "w", "x", "y", "z",
     "A", "B", "C", "D", "E", "F", "G", "H", "I", "J", "K", "L", "M",
     "N", "O", "P", "Q", "R", "S", "T", "U", "V", "W", "X", "Y", "Z"}

Contains(s, set) == \E i \in 1..Len(s) : s[i] \in set

\* s.replace(/([set])/g, "\\$1"): a backslash before every character of set.
RECURSIVE BackslashEach(_, _)
BackslashEach(s, set) ==
    IF s = <<>> THEN <<>>
    ELSE (IF s[1] \in set THEN <<BACKSLASH, s[1]>> ELSE <<s[1]>>)
         \o BackslashEach(Tail(s), set)

\* escapeShellArg putting a backslash before the spaces too.
escapeShellArgSpaces(arg) ==
    IF ~Contains(arg, ShellSpecial \cup {" "})
    THEN arg
    ELSE <<DQUOTE>> \o BackslashEach(arg, ShellSpecial \cup {" "}) \o <<DQUOTE>>

escapeShellArg(arg) ==
    IF ~Contains(arg, ShellSpecial \cup {" "})
    THEN arg
    ELSE <<DQUOTE>> \o BackslashEach(arg, ShellSpecial) \o <<DQUOTE>>

\* /(\\\\)/.test(s): two backslashes in a row somewhere in s.
HasDoubleBackslash(s) ==
    \E i \in 1..(Len(s) - 1) : s[i] = BACKSLASH /\ s[i + 1] = BACKSLASH

\* s.replace(/\\\\/g, "/"): every pair of backslashes, scanning from the left.
RECURSIVE SlashForPairs(_)
SlashForPairs(s) ==
    IF s = <<>> THEN <<>>
    ELSE IF Len(s) >= 2 /\ s[1] = BACKSLASH /\ s[2] = BACKSLASH
         THEN <<"/">> \o SlashForPairs(SubSeq(s, 3, Len(s)))
         ELSE <<s[1]>> \o SlashForPairs(Tail(s))

\* The drive prefix at position k of s: a letter, a colon, a slash.
DriveAt(s, k) ==
    /\ Len(s) >= k + 2
    /\ s[k] \in Letters
    /\ s[k + 1] = ":"
    /\ s[k + 2] = "/"

\* The drive prefix left in place.
KeepDrive(s) == s

\* The second replace() of escapeFileArg: at the start of s, an optional
\* double quote, a drive letter, a colon and a slash become one slash.
StripDrive(s) ==
    IF Len(s) >= 1 /\ s[1] = DQUOTE /\ DriveAt(s, 2)
    THEN <<"/">> \o SubSeq(s, 5, Len(s))
    ELSE IF DriveAt(s, 1)
         THEN <<"/">> \o SubSeq(s, 4, Len(s))
         ELSE s

\* escapeFileArg leaving the parentheses alone.
escapeFileArgOnParens(plat, filename) ==
    LET escaped == BackslashEach(filename, ShellSpecial \cup Whitespace)
    IN IF ~HasDoubleBackslash(escaped)
       THEN escaped
       ELSE IF plat = "win32"
            THEN StripDrive(SlashForPairs(escaped))
            ELSE escaped

escapeFileArgOn(plat, filename) ==
    LET escaped == BackslashEach(filename, FileSpecial)
    IN IF ~HasDoubleBackslash(escaped)
       THEN escaped
       ELSE IF plat = "win32"
            THEN StripDrive(SlashForPairs(escaped))
            ELSE escaped

escapeFileArg(filename) == escapeFileArgOn(platform, filename)

\* The EscapeFunction passed to buildOption, named by the function it is.
EscapeFunction(escapeArg, value) ==
    IF escapeArg = "escapeShellArg"
    THEN escapeShellArg(value)
    ELSE escapeFileArg(value)

\* buildOption gluing every value with '='.
buildOptionEquals(name, value, escapeArg) ==
    LET prefix == IF Len(name) = 1 THEN <<"-">> ELSE <<"-", "-">>
    IN IF Truthy(value)
       THEN prefix \o name \o <<"=">> \o EscapeFunction(escapeArg, value.v)
       ELSE prefix \o name

\* value is a JavaScript value (null, undefined or a string); a falsy value,
\* the empty string included, renders the bare option.
buildOption(name, value, escapeArg) ==
    LET single == Len(name) = 1
        prefix == IF single THEN <<"-">> ELSE <<"-", "-">>
        glue == IF single THEN <<" ">> ELSE <<"=">>
    IN IF Truthy(value)
       THEN prefix \o name \o glue \o EscapeFunction(escapeArg, value.v)
       ELSE prefix \o name

\* Array.prototype.join
RECURSIVE Join(_, _)
Join(parts, sep) ==
    IF parts = <<>> THEN <<>>
    ELSE IF Len(parts) = 1 THEN parts[1]
    ELSE parts[1] \o sep \o Join(Tail(parts), sep)

RECURSIVE Flatten(_)
Flatten(ss) == IF ss = <<>> THEN <<>> ELSE ss[1] \o Flatten(Tail(ss))

-----------------------------------------------------------------------------
(* The Rsync class: constructor and _processOptions.                       *)

InstIds == {1, 2}

\* The boolean shorthand fields of RsyncOptions with the option key each
\* one sets, in the order _processOptions tests them.
BoolShorthands ==
    << <<"delete", <<"d", "e", "l", "e", "t", "e">>>>, <<"progress", <<"p", "r", "o", "g", "r", "e", "s", "s">>>>,
       <<"archive", <<"a">>>>, <<"compress", <<"z">>>>, <<"recursive", <<"r">>>>,
       <<"update", <<"u">>>>, <<"quiet", <<"q">>>>, <<"dirs", <<"d">>>>,
       <<"links", <<"l">>>>, <<"dry", <<"n">>>>, <<"hardLinks", <<"H">>>>,
       <<"perms", <<"p">>>>, <<"executability", <<"E">>>>, <<"group", <<"g">>>>,
       <<"owner", <<"o">>>>, <<"acls", <<"A">>>>, <<"xattrs", <<"X">>>>,
       <<"devices", <<"d", "e", "v", "i", "c", "e", "s">>>>, <<"specials", <<"s", "p", "e", "c", "i", "a", "l", "s">>>>,
       <<"times", <<"t">>>> >>

\* An options object without any field. `bools` is the set of boolean
\* shorthand fields that are true; every other field is a JavaScript value.
EmptyOptions ==
    [source |-> Undef, destination |-> Undef, executable |-> Undef,
     executableShell |-> Undef, cwd |-> Undef, env |-> Undef,
     flags |-> Undef, shell |-> Undef, bools |-> {}, chmod |-> Undef,
     exclude |-> Undef, include |-> Undef, output |-> Undef, set |-> Undef]

\* An instance slot before `new Rsync(...)` has returned.
NoInstance ==
    [exists |-> FALSE, _executable |-> <<>>, _executableShell |-> <<>>,
     _sources |-> <<>>, _destination |-> <<>>, _includes |-> <<>>,
     _excludes |-> <<>>, _options |-> <<>>,
     _outputHandlers |-> [stdout |-> Null, stderr |-> Null],
     _cwd |-> "", _env |-> ""]

\* The strings of an array of strings.
Strings(a) == [i \in 1..Len(a.v) |-> a.v[i].v]

\* string | string[]  ->  string[]
AsList(x) == IF IsArray(x) THEN Strings(x) ELSE <<x.v>>

\* for (const flag of flags) this._options[flag] = null
RECURSIVE SetFlags(_, _)
SetFlags(o, flags) ==
    IF flags = <<>> THEN o
    ELSE SetFlags(SetProp(o, flags[1], Null), Tail(flags))

\* The run of  if (options.X) this._options.K = null  statements.
RECURSIVE SetBools(_, _, _)
SetBools(o, bools, k) ==
    IF k > Len(BoolShorthands) THEN o
    ELSE SetBools(IF BoolShorthands[k][1] \in bools
                  THEN SetProp(o, BoolShorthands[k][2], Null)
                  ELSE o,
                  bools, k + 1)

\* The loop over `set` skipping the keys the mapping already has.
RECURSIVE SetEntriesKeep(_, _)
SetEntriesKeep(o, es) ==
    IF es = <<>> THEN o
    ELSE SetEntriesKeep(IF HasKey(o, es[1][1]) THEN o
                        ELSE SetProp(o, es[1][1], es[1][2]),
                        Tail(es))

\* for (const [key, value] of Object.entries(options.set)) ...
RECURSIVE SetEntries(_, _)
SetEntries(o, es) ==
    IF es = <<>> THEN o
    ELSE SetEntries(SetProp(o, es[1][1], es[1][2]), Tail(es))

\* The option mapping _processOptions builds.
ProcessedOptions(options) ==
    LET o1 == IF Truthy(options.flags)
              THEN SetFlags(<<>>,
                            IF IsArray(options.flags)
                            THEN Strings(options.flags)
                            ELSE [i \in 1..Len(options.flags.v) |->
                                     <<options.flags.v[i]>>])
              ELSE <<>>
        o2 == IF Truthy(options.shell)
              THEN SetProp(o1, <<"r", "s", "h">>, options.shell)
              ELSE o1
        o3 == SetBools(o2, options.bools, 1)
        o4 == IF Truthy(options.chmod)
              THEN SetProp(o3, <<"c", "h", "m", "o", "d">>,
                           IF IsArray(options.chmod)
                           THEN options.chmod
                           ELSE Arr(<<options.chmod>>))
              ELSE o3
    IN IF Truthy(options.set)
       THEN SetEntries(o4, ObjectEntries(options.set.v))
       ELSE o4

\* output[k] if it is a function, otherwise the handler stays null.
HandlerAt(output, k) ==
    IF /\ Truthy(output)
       /\ IsArray(output)
       /\ Len(output.v) >= k
       /\ TypeOf(output.v[k]) = "function"
    THEN output.v[k]
    ELSE Null

_processOptions(self, options) ==
    [self EXCEPT
        !._sources = IF Truthy(options.source)
                     THEN AsList(options.source)
                     ELSE @,
        !._destination = IF Truthy(options.destination)
                         THEN options.destination.v
                         ELSE @,
        !._options = ProcessedOptions(options),
        !._excludes = IF Truthy(options.exclude)
                      THEN @ \o AsList(options.exclude)
                      ELSE @,
        !._includes = IF Truthy(options.include)
                      THEN @ \o AsList(options.include)
                      ELSE @,
        !._outputHandlers = [stdout |-> HandlerAt(options.output, 1),
                             stderr |-> HandlerAt(options.output, 2)]]

\* The fields the constructor sets before it calls _processOptions.
Constructed(options) ==
    [exists |-> TRUE,
     _executable |-> IF Truthy(options.executable)
                     THEN options.executable.v ELSE <<"r", "s", "y", "n", "c">>,
     _executableShell |-> IF Truthy(options.executableShell)
                          THEN options.executableShell.v ELSE <<"/", "b", "i", "n", "/", "s", "h">>,
     _sources |-> <<>>, _destination |-> <<>>, _includes |-> <<>>,
     _excludes |-> <<>>, _options |-> <<>>,
     _outputHandlers |-> [stdout |-> Null, stderr |-> Null],
     _cwd |-> IF Truthy(options.cwd) THEN "resolved cwd" ELSE "process.cwd()",
     _env |-> IF Truthy(options.env) THEN "options.env" ELSE "process.env"]

\* What `new Rsync(arg)` throws: "none" when it returns an instance.
\* A missing argument (undefined) takes the default {}.
ConstructorThrows(arg) ==
    LET options == IF arg.t = "undefined" THEN Obj(EmptyOptions) ELSE arg
    IN IF TypeOf(options) # "object" \/ IsArray(options)
       THEN "Error: Rsync options must be an Object"
       ELSE IF options.t = "null"
            THEN "TypeError: Cannot read properties of null"
            ELSE "none"

\* The constructor argument of a slot whose constructor was not called yet.
NotConstructed == [t |-> "not constructed"]

\* new Rsync(arg), the result kept in slot i; one constructor call per slot.
New(i, arg) ==
    /\ ctorArg[i] = NotConstructed
    /\ thrown' = [thrown EXCEPT ![i] = ConstructorThrows(arg)]
    /\ ctorArg' = [ctorArg EXCEPT ![i] = arg]
    /\ inst' = [inst EXCEPT ![i] =
                  IF ConstructorThrows(arg) = "none"
                  THEN LET options == IF arg.t = "undefined"
                                      THEN EmptyOptions ELSE arg.v
                       IN _processOptions(Constructed(options), options)
                  ELSE @]
    /\ UNCHANGED <<platform, lastArgs, lastCmd, lastStr, calls, sinkLog>>

-----------------------------------------------------------------------------
(* The builder: args(), command(), toString() and the accessors.           *)

\* noval of args(): the value is null or undefined.
NoVal(value) == value.t \in {"null", "undefined"}

\* The test of args() reduced to the length of the key.
IsShortEntryAnyValue(e) == Len(e[1]) = 1

\* An entry that args() pushes onto `short`.
IsShortEntry(e) == Len(e[1]) = 1 /\ NoVal(e[2])
IsLongEntry(e) == ~IsShortEntry(e)

\* The elements of a sequence value rendered into one token.
LongTokensCombined(e) ==
    IF IsArray(e[2])
    THEN <<Join([j \in 1..Len(e[2].v) |->
                    buildOption(e[1], e[2].v[j], "escapeShellArg")], <<",">>)>>
    ELSE <<buildOption(e[1], e[2], "escapeShellArg")>>

\* The tokens args() pushes onto `long` for one entry.
LongTokens(e) ==
    IF IsArray(e[2])
    THEN [j \in 1..Len(e[2].v) |->
             buildOption(e[1], e[2].v[j], "escapeShellArg")]
    ELSE <<buildOption(e[1], e[2], "escapeShellArg")>>

\* The combined token of the short keys, when there is one.
ShortPart(entries) ==
    LET short == SelectSeq(entries, IsShortEntry)
    IN IF Len(short) > 0
       THEN << <<"-">> \o Flatten([k \in 1..Len(short) |-> short[k][1]]) >>
       ELSE <<>>

LongPart(entries) ==
    LET long == SelectSeq(entries, IsLongEntry)
    IN Flatten([k \in 1..Len(long) |-> LongTokens(long[k])])

FilterPart(name, patterns) ==
    [k \in 1..Len(patterns) |->
        buildOption(name, Str(patterns[k]), "escapeFileArg")]

SourcePart(self) ==
    [k \in 1..Len(self._sources) |-> escapeFileArg(self._sources[k])]

DestinationPart(self) ==
    IF self._destination # <<>>
    THEN <<escapeFileArg(self._destination)>>
    ELSE <<>>

OptionEntries(self) == ObjectEntries(self._options)

\* args() with the two filter loops in the other order.
argsIncludesFirst(self) ==
    ShortPart(OptionEntries(self))
    \o LongPart(OptionEntries(self))
    \o FilterPart(<<"i", "n", "c", "l", "u", "d", "e">>, self._includes)
    \o FilterPart(<<"e", "x", "c", "l", "u", "d", "e">>, self._excludes)
    \o SourcePart(self)
    \o DestinationPart(self)

args(self) ==
    ShortPart(OptionEntries(self))
    \o LongPart(OptionEntries(self))
    \o FilterPart(<<"e", "x", "c", "l", "u", "d", "e">>, self._excludes)
    \o FilterPart(<<"i", "n", "c", "l", "u", "d", "e">>, self._includes)
    \o SourcePart(self)
    \o DestinationPart(self)

\* command() joining the tokens with two spaces.
commandWide(self) ==
    self._executable \o <<" ">> \o Join(args(self), <<" ", " ">>)

command(self) == self._executable \o <<" ">> \o Join(args(self), <<" ">>)

toString(self) == command(self)

\* The result slot of a method that has not been called yet.
NotCalled == [called |-> FALSE, value |-> <<>>, self |-> NoInstance]

\* The value a method returned, with the fields the instance had then.
Returned(v, self) == [called |-> TRUE, value |-> v, self |-> self]

\* rsync.args() taking the sources off the instance as it renders them.
CallArgsDraining(i) ==
    /\ inst[i].exists
    /\ lastArgs' = [lastArgs EXCEPT ![i] = Returned(args(inst[i]), inst[i])]
    /\ inst' = [inst EXCEPT ![i]._sources = <<>>]
    /\ UNCHANGED <<platform, ctorArg, thrown, lastCmd, lastStr, calls, sinkLog>>

\* rsync.args()
CallArgs(i) ==
    /\ inst[i].exists
    /\ lastArgs' = [lastArgs EXCEPT ![i] = Returned(args(inst[i]), inst[i])]
    /\ UNCHANGED <<platform, inst, ctorArg, thrown, lastCmd, lastStr, calls, sinkLog>>

\* rsync.command()
CallCommand(i) ==
    /\ inst[i].exists
    /\ lastCmd' = [lastCmd EXCEPT ![i] = Returned(command(inst[i]), inst[i])]
    /\ UNCHANGED <<platform, inst, ctorArg, thrown, lastArgs, lastStr, calls,
                   sinkLog>>

\* rsync.toString()
CallToString(i) ==
    /\ inst[i].exists
    /\ lastStr' = [lastStr EXCEPT ![i] = Returned(toString(inst[i]), inst[i])]
    /\ UNCHANGED <<platform, inst, ctorArg, thrown, lastArgs, lastCmd, calls,
                   sinkLog>>

-----------------------------------------------------------------------------
(* The inputs of the builder: constructor arguments drawn from small sets. *)

Platforms == {"linux", "win32"}

FlagChars == {"a", "v", "4"}

\* The strings over FlagChars of length 1..n.
RECURSIVE StringsUpTo(_)
StringsUpTo(n) ==
    IF n = 0 THEN {<<>>}
    ELSE LET shorter == StringsUpTo(n - 1)
         IN shorter \cup {Append(s, c) : s \in shorter, c \in FlagChars}

FlagStrings == StringsUpTo(MaxFlags) \ {<<>>}

\* `flags` as a string, or (for the strings starting with "a") as an array
\* of one-character strings.
FlagInputs ==
    {Undef}
    \cup {Str(f) : f \in FlagStrings}
    \cup {Arr([k \in 1..Len(f) |-> Str(<<f[k]>>)]) :
             f \in {g \in FlagStrings : Len(g) = MaxFlags /\ g[1] = "a"}}

\* bools, shell, chmod
ShorthandInputs ==
    { <<{}, Undef, Undef>>,
      <<{"archive"}, Str(<<"s", "s", "h">>), Str(<<"o", "g", "=", "u", "w", "x">>)>>,
      <<{"delete", "times"}, Undef,
        Arr(<<Str(<<"o", "g", "=", "u", "w", "x">>), Str(<<"r", "x", "=", "o", "g", "w">>)>>)>> }

\* exclude, include
FilterInputs ==
    { <<Undef, Undef>>,
      <<Arr(<<Str(<<".", "g", "i", "t">>), Str(<<"w", "i", "t", "h", " ", "s", "p", "a", "c", "e">>)>>), Str(<<"*", ".", "m", "d">>)>>,
      <<Str(<<".", "g", "i", "t">>), Arr(<<Str(<<"*", ".", "m", "d">>), Str(<<"/", "t", "/", "*", ".", "j", "s">>)>>)>> }

\* source, destination, executable
PathInputs ==
    { <<Undef, Undef, Undef>>,
      <<Str(<<"a", ".", "t", "x", "t">>), Str(<<"d", "s", "t", "/">>), Str(<<"/", "u", "s", "r", "/", "l", "o", "c", "a", "l", "/", "b", "i", "n", "/", "r", "s", "y", "n", "c">>)>>,
      <<Arr(<<Str(<<"b", " ", "f", "i", "l", "e", ".", "t", "x", "t">>), Str(<<"a", ".", "t", "x", "t">>)>>), Str(<<"d", "s", "t", "/">>), Undef>>,
      <<Arr(<<Str(<<"a", ".", "t", "x", "t">>), Str(<<"a", "'", "b">>)>>), Str(<<>>), Undef>> }

\* set: objects as the caller wrote them, properties in creation order
SetInputs ==
    { Undef,
      Obj(<< <<<<"m", "a", "x", "-", "s", "i", "z", "e">>, Str(<<"1", "0", "0", "9">>)>>, <<<<"i", "n", "p", "l", "a", "c", "e">>, Null>> >>),
      Obj(<< <<<<"f">>, Str(<<"-", " ", ".", "g", "i", "t">>)>>, <<<<"a">>, Str(<<>>)>>,
             <<<<"v">>, Str(<<"1">>)>> >>),
      Obj(<< <<<<"z">>, Null>>, <<<<"4">>, Null>>, <<<<"r", "s", "h">>, Null>> >>) }

OptionInputs ==
    { [EmptyOptions EXCEPT
          !.flags = fl, !.bools = sh[1], !.shell = sh[2], !.chmod = sh[3],
          !.exclude = fi[1], !.include = fi[2],
          !.source = pa[1], !.destination = pa[2],
          !.executable = pa[3], !.set = se] :
        fl \in FlagInputs, sh \in ShorthandInputs, fi \in FilterInputs,
        pa \in PathInputs, se \in SetInputs }

\* Arguments that are not an options object, and the missing argument.
NonObjectInputs ==
    { Str(<<"s", "t", "r", "i", "n", "g">>), Num(0), Num(7), Bool(TRUE), Bool(FALSE),
      Arr(<<>>), Arr(<<Str(<<"a">>)>>), Null }

BuildInputs == {Undef} \cup NonObjectInputs \cup {Obj(o) : o \in OptionInputs}

InitBuild ==
    /\ platform \in Platforms
    /\ inst = [i \in InstIds |-> NoInstance]
    /\ ctorArg = [i \in InstIds |-> NotConstructed]
    /\ thrown = [i \in InstIds |-> "none"]
    /\ lastArgs = [i \in InstIds |-> NotCalled]
    /\ lastCmd = [i \in InstIds |-> NotCalled]
    /\ lastStr = [i \in InstIds |-> NotCalled]
    /\ calls = <<>>
    /\ sinkLog = [h \in {"h1", "h2", "h3", "h4"} |-> <<>>]

NextBuild ==
    \/ /\ ctorArg[1] = NotConstructed
       /\ \E arg \in BuildInputs : New(1, arg)
    \/ CallArgs(1)
    \/ CallCommand(1)

SpecBuild == InitBuild /\ [][NextBuild]_vars

-----------------------------------------------------------------------------
(* Properties of the builder, checked under SpecBuild.                     *)

NonObjectKinds == {"string", "number", "boolean", "array", "null"}

\* C8: a constructor argument that is a string, a number, a boolean, an
\* array or null makes the constructor throw 'Rsync options must be an
\* Object' and leaves no instance; no argument or a plain object succeeds.
C8_NonObjectRejected ==
    \A i \in InstIds :
        ctorArg[i] # NotConstructed =>
            IF ctorArg[i].t \in NonObjectKinds
            THEN /\ thrown[i] = "Error: Rsync options must be an Object"
                 /\ ~inst[i].exists
            ELSE /\ thrown[i] = "none"
                 /\ inst[i].exists

\* C9: the option tokens of args() are in the order in which the keys were
\* first added to the option mapping (_options in creation order): first
\* the combined short token with its characters in that order, then the
\* separately rendered options in that order.
C9_InsertionOrderRendered ==
    \A i \in InstIds :
        lastArgs[i].called =>
            LET created == lastArgs[i].self._options
                want == ShortPart(created) \o LongPart(created)
            IN /\ Len(lastArgs[i].value) >= Len(want)
               /\ SubSeq(lastArgs[i].value, 1, Len(want)) = want

\* C10: the token list of args() is, in this order, the combined short
\* token (if any), the other option tokens, one --exclude token per exclude
\* pattern, one --include token per include pattern, the sources, and the
\* destination last unless it is empty; each group in its given order.
C10_ArgsGroupOrder ==
    \A i \in InstIds :
        lastArgs[i].called =>
            LET self == lastArgs[i].self
                A == lastArgs[i].value
                entries == ObjectEntries(self._options)
                nShort == IF \E k \in 1..Len(entries) : IsShortEntry(entries[k])
                          THEN 1 ELSE 0
                nOpt == nShort + Len(LongPart(entries))
                nExc == Len(self._excludes)
                nInc == Len(self._includes)
                nSrc == Len(self._sources)
                nDst == IF self._destination = <<>> THEN 0 ELSE 1
            IN /\ Len(A) = nOpt + nExc + nInc + nSrc + nDst
               /\ nShort = 1 => (A[1][1] = "-" /\ A[1][2] # "-")
               /\ \A k \in 1..nExc :
                      A[nOpt + k] =
                          buildOption(<<"e", "x", "c", "l", "u", "d", "e">>,
                                      Str(self._excludes[k]), "escapeFileArg")
               /\ \A k \in 1..nInc :
                      A[nOpt + nExc + k] =
                          buildOption(<<"i", "n", "c", "l", "u", "d", "e">>,
                                      Str(self._includes[k]), "escapeFileArg")
               /\ \A k \in 1..nSrc :
                      A[nOpt + nExc + nInc + k] = escapeFileArg(self._sources[k])
               /\ nDst = 1 => A[Len(A)] = escapeFileArg(self._destination)

\* A state where args() has rendered all six groups.
C10_Witness ==
    /\ lastArgs[1].called
    /\ Len(lastArgs[1].self._excludes) = 2
    /\ Len(lastArgs[1].self._includes) = 1
    /\ Len(lastArgs[1].self._sources) = 2
    /\ lastArgs[1].self._destination # <<>>
    /\ \E k \in 1..Len(lastArgs[1].self._options) :
           IsShortEntry(lastArgs[1].self._options[k])
    /\ \E k \in 1..Len(lastArgs[1].self._options) :
           IsLongEntry(lastArgs[1].self._options[k])

-----------------------------------------------------------------------------
(* execute(): the child process, its listeners and the promise.            *)

\* The output handlers (callables) of the model.
Handlers == {"h1", "h2", "h3", "h4"}

Streams == {"stdout", "stderr"}

\* Exit codes a child that ran can report, and the close code (a negated
\* errno) of a child that could not be spawned.
ExitCodes == {0, 23}
SpawnErrno == 0 - 2

\* The errors the process facility passes to the 'error' listener.
SpawnErrors ==
    { [name |-> "Error", code |-> Str(<<"E", "N", "O", "E", "N", "T">>),
       errno |-> Num(SpawnErrno)],
      [name |-> "Error", code |-> Str(<<"E", "A", "C", "C", "E", "S">>),
       errno |-> Num(0 - 13)] }

\* Number to decimal string, as a template literal formats it.
RECURSIVE NatStr(_)
NatStr(n) ==
    IF n < 10 THEN <<Digits[n + 1]>>
    ELSE NatStr(n \div 10) \o <<Digits[(n % 10) + 1]>>

NumStr(n) == IF n < 0 THEN <<"-">> \o NatStr(0 - n) ELSE NatStr(n)

\* `${code}` for the code of a 'close' notification (a number or null).
CodeStr(code) ==
    IF code.t = "null" THEN <<"n", "u", "l", "l">> ELSE NumStr(code.v)

\* code, whatever it is, in the place of code ?? d.
OrElseKeep(code, d) == code

\* code ?? d
OrElse(code, d) == IF code.t \in {"null", "undefined"} THEN Num(d) ELSE code

Pending == [state |-> "pending", value |-> Undef]

\* resolve(value) and reject(value) overwrite the outcome they find.
SettleAgain(promise, state, value) == [state |-> state, value |-> value]

\* resolve(value) / reject(value) of the promise execute() returns: the
\* first call settles it, every later call is ignored.
Settle(promise, state, value) ==
    IF promise.state = "pending"
    THEN [state |-> state, value |-> value]
    ELSE promise

\* The 'close' listener resolving whatever the code is.
CloseOutcomeAlwaysResolves(self, code) ==
    [state |-> "fulfilled",
     value |-> [code |-> OrElse(code, 0), cmd |-> Str(command(self))]]

\* The 'close' listener setting the code of its error to -1 whatever the
\* exit code.
CloseOutcomeCodeLost(self, code) ==
    IF code # Num(0)
    THEN [state |-> "rejected",
          value |-> [name |-> "Error",
                     message |-> <<"r", "s", "y", "n", "c", " ",
                                   "e", "x", "i", "t", "e", "d", " ",
                                   "w", "i", "t", "h", " ",
                                   "c", "o", "d", "e", " ">> \o CodeStr(code),
                     code |-> Num(0 - 1),
                     cmd |-> Str(command(self))]]
    ELSE [state |-> "fulfilled",
          value |-> [code |-> OrElse(code, 0), cmd |-> Str(command(self))]]

\* What the 'close' listener passes to resolve or reject; self is the
\* instance as it is when the listener runs.
CloseOutcome(self, code) ==
    IF code # Num(0)
    THEN [state |-> "rejected",
          value |-> [name |-> "Error",
                     message |-> <<"r", "s", "y", "n", "c", " ", "e", "x", "i", "t", "e", "d", " ", "w", "i", "t", "h", " ", "c", "o", "d", "e", " ">> \o CodeStr(code),
                     code |-> OrElse(code, 0 - 1),
                     cmd |-> Str(command(self))]]
    ELSE [state |-> "fulfilled",
          value |-> [code |-> OrElse(code, 0), cmd |-> Str(command(self))]]

\* The 'error' listener adding the command to the error it rejects with.
ErrorOutcomeWithCmd(self, error) ==
    [state |-> "rejected",
     value |-> [name |-> error.name, code |-> error.code,
                errno |-> error.errno, cmd |-> Str(command(self))]]

\* What the 'error' listener passes to reject.
ErrorOutcome(self, error) == [state |-> "rejected", value |-> error]

\* The listener registered on the other stream.
ListenerCrossed(self, stream) ==
    LET h == IF stream = "stdout"
             THEN self._outputHandlers.stderr
             ELSE self._outputHandlers.stdout
    IN IF TypeOf(h) = "function" THEN h ELSE Null

\* The 'data' listener execute() registers on a stream of the child: the
\* handler of the instance, when it is a function.
Listener(self, stream) ==
    LET h == self._outputHandlers[stream]
    IN IF TypeOf(h) = "function" THEN h ELSE Null

\* The handlers of the instance after the first statements of execute().
HandlersAfter(self, stdoutHandler, stderrHandler) ==
    [stdout |-> IF TypeOf(stdoutHandler) = "function"
                THEN stdoutHandler ELSE self._outputHandlers.stdout,
     stderr |-> IF TypeOf(stderrHandler) = "function"
                THEN stderrHandler ELSE self._outputHandlers.stderr]

\* The file and the arguments execute() hands to spawn().
SpawnFile(self) ==
    IF platform = "win32" THEN <<"c", "m", "d", ".", "e", "x", "e">> ELSE self._executableShell

SpawnArgs(self) ==
    IF platform = "win32"
    THEN <<<<"/", "s">>, <<"/", "c">>, <<DQUOTE>> \o command(self) \o <<DQUOTE>> >>
    ELSE <<<<"-", "c">>, command(self)>>

\* execute() using the handlers given for this call only, the instance
\* keeping the handlers it had.
executePerCall(i, stdoutHandler, stderrHandler, spawned) ==
    /\ inst[i].exists
    /\ Len(calls) < Cardinality(CallIds)
    /\ LET self == [inst[i] EXCEPT !._outputHandlers =
                       HandlersAfter(inst[i], stdoutHandler, stderrHandler)]
       IN /\ inst' = inst
          /\ calls' = Append(calls,
                 [inst |-> i,
                  given |-> [stdout |-> stdoutHandler, stderr |-> stderrHandler],
                  file |-> SpawnFile(self),
                  spawnArgs |-> SpawnArgs(self),
                  cmd |-> command(self),
                  spawns |-> 1,
                  spawned |-> spawned,
                  sinks |-> self._outputHandlers,
                  listener |-> [s \in Streams |-> Listener(self, s)],
                  written |-> [s \in Streams |-> <<>>],
                  notified |-> <<>>,
                  produced |-> <<>>,
                  promise |-> Pending])
    /\ UNCHANGED <<platform, ctorArg, thrown, lastArgs, lastCmd, lastStr, sinkLog>>

\* rsync.execute(stdoutHandler, stderrHandler): stores the handlers given,
\* spawns the child and registers the listeners, all in one turn. Whether
\* the spawn succeeds is the platform's choice.
execute(i, stdoutHandler, stderrHandler, spawned) ==
    /\ inst[i].exists
    /\ Len(calls) < Cardinality(CallIds)
    /\ LET self == [inst[i] EXCEPT !._outputHandlers =
                       HandlersAfter(inst[i], stdoutHandler, stderrHandler)]
       IN /\ inst' = [inst EXCEPT ![i] = self]
          /\ calls' = Append(calls,
                 [inst |-> i,
                  given |-> [stdout |-> stdoutHandler, stderr |-> stderrHandler],
                  file |-> SpawnFile(self),
                  spawnArgs |-> SpawnArgs(self),
                  cmd |-> command(self),
                  spawns |-> 1,
                  spawned |-> spawned,
                  sinks |-> self._outputHandlers,
                  listener |-> [s \in Streams |-> Listener(self, s)],
                  written |-> [s \in Streams |-> <<>>],
                  notified |-> <<>>,
                  produced |-> <<>>,
                  promise |-> Pending])
    /\ UNCHANGED <<platform, ctorArg, thrown, lastArgs, lastCmd, lastStr, sinkLog>>

\* The chunks the children have written so far.
RECURSIVE ChunksWritten(_)
ChunksWritten(cs) ==
    IF cs = <<>> THEN 0
    ELSE Len(cs[1].written.stdout) + Len(cs[1].written.stderr)
         + ChunksWritten(Tail(cs))

HasNotified(call, kind) ==
    \E k \in 1..Len(call.notified) : call.notified[k].kind = kind

\* A chunk arriving at the handlers the instance has now, not at the
\* listener the call registered.
ChildDataSharedSinks(c, stream) ==
    /\ c \in 1..Len(calls)
    /\ calls[c].spawned
    /\ ~HasNotified(calls[c], "close")
    /\ ChunksWritten(calls) < MaxChunks
    /\ LET data == <<c, Len(calls[c].written.stdout)
                        + Len(calls[c].written.stderr) + 1>>
           h == Listener(inst[calls[c].inst], stream)
       IN /\ calls' = [calls EXCEPT ![c].written[stream] = Append(@, data)]
          /\ sinkLog' = IF h.t = "function"
                        THEN [sinkLog EXCEPT ![h.v] =
                                 Append(@, [call |-> c, stream |-> stream,
                                            data |-> data])]
                        ELSE sinkLog
    /\ UNCHANGED <<platform, inst, ctorArg, thrown, lastArgs, lastCmd, lastStr>>

\* A chunk arriving whether or not the outcome has been decided, as it can
\* when the outcome is decided on 'exit', before the streams have ended.
ChildDataAfterExit(c, stream) ==
    /\ c \in 1..Len(calls)
    /\ calls[c].spawned
    /\ ChunksWritten(calls) < MaxChunks
    /\ LET data == <<c, Len(calls[c].written.stdout)
                        + Len(calls[c].written.stderr) + 1>>
           h == calls[c].listener[stream]
       IN /\ calls' = [calls EXCEPT ![c].written[stream] = Append(@, data)]
          /\ sinkLog' = IF h.t = "function"
                        THEN [sinkLog EXCEPT ![h.v] =
                                 Append(@, [call |-> c, stream |-> stream,
                                            data |-> data])]
                        ELSE sinkLog
    /\ UNCHANGED <<platform, inst, ctorArg, thrown, lastArgs, lastCmd, lastStr>>

\* A chunk arrives on a stream of child c: the 'data' listener, if one is
\* registered, is invoked with it. Each chunk is a value of its own.
ChildData(c, stream) ==
    /\ c \in 1..Len(calls)
    /\ calls[c].spawned
    /\ ~HasNotified(calls[c], "close")
    /\ ChunksWritten(calls) < MaxChunks
    /\ LET data == <<c, Len(calls[c].written.stdout)
                        + Len(calls[c].written.stderr) + 1>>
           h == calls[c].listener[stream]
       IN /\ calls' = [calls EXCEPT ![c].written[stream] = Append(@, data)]
          /\ sinkLog' = IF h.t = "function"
                        THEN [sinkLog EXCEPT ![h.v] =
                                 Append(@, [call |-> c, stream |-> stream,
                                            data |-> data])]
                        ELSE sinkLog
    /\ UNCHANGED <<platform, inst, ctorArg, thrown, lastArgs, lastCmd, lastStr>>

\* The 'close' listener of call c runs with code.
OnClose(c, code) ==
    LET outcome == CloseOutcome(inst[calls[c].inst], code)
    IN /\ calls' = [calls EXCEPT
                       ![c].notified = Append(@, [kind |-> "close", arg |-> code,
                                                  self |-> inst[calls[c].inst]]),
                       ![c].produced = Append(@, outcome),
                       ![c].promise = Settle(@, outcome.state, outcome.value)]
       /\ UNCHANGED <<platform, inst, ctorArg, thrown, lastArgs, lastCmd, lastStr,
                      sinkLog>>

\* The 'error' listener spawning the child again instead of rejecting.
OnErrorRetry(c, error) ==
    /\ calls' = [calls EXCEPT
                    ![c].notified = Append(@, [kind |-> "error", arg |-> error,
                                               self |-> inst[calls[c].inst]]),
                    ![c].produced = Append(@, Pending),
                    ![c].spawns = @ + 1]
    /\ UNCHANGED <<platform, inst, ctorArg, thrown, lastArgs, lastCmd, lastStr,
                   sinkLog>>

\* The 'error' listener of call c runs with error.
OnError(c, error) ==
    LET outcome == ErrorOutcome(inst[calls[c].inst], error)
    IN /\ calls' = [calls EXCEPT
                       ![c].notified = Append(@, [kind |-> "error", arg |-> error,
                                                  self |-> inst[calls[c].inst]]),
                       ![c].produced = Append(@, outcome),
                       ![c].promise = Settle(@, outcome.state, outcome.value)]
       /\ UNCHANGED <<platform, inst, ctorArg, thrown, lastArgs, lastCmd, lastStr,
                      sinkLog>>

\* The child of call c closes. A child that ran reports an exit code, or
\* null when a signal ended it; for a child that could not be spawned the
\* facility emits 'error' and then 'close' with the negated errno.
ChildClose(c, code) ==
    /\ c \in 1..Len(calls)
    /\ ~HasNotified(calls[c], "close")
    /\ IF calls[c].spawned
       THEN code \in {Num(n) : n \in ExitCodes} \cup {Null}
       ELSE /\ HasNotified(calls[c], "error")
            /\ code = calls[c].notified[1].arg.errno
    /\ OnClose(c, code)

\* The facility reports that the child of call c could not be spawned.
ChildError(c, error) ==
    /\ c \in 1..Len(calls)
    /\ ~calls[c].spawned
    /\ calls[c].notified = <<>>
    /\ OnError(c, error)

\* The caller appends a path to the array that source() returned, which is
\* the _sources array of the instance itself.
PushSource(i) ==
    /\ inst[i].exists
    /\ ctorArg[i].t = "object"
    /\ Len(inst[i]._sources)
           < MaxPush + (IF Truthy(ctorArg[i].v.source)
                        THEN Len(AsList(ctorArg[i].v.source)) ELSE 0)
    /\ inst' = [inst EXCEPT ![i]._sources = Append(@, <<"x", " ", "y">>)]
    /\ UNCHANGED <<platform, ctorArg, thrown, lastArgs, lastCmd, lastStr, calls, sinkLog>>

\* The arguments of execute(): nothing, or a callable.
StdoutArgs == {Undef, Fn("h3")}
StderrArgs == {Undef, Fn("h4")}

\* output
OutputInputs ==
    { Undef,
      Arr(<<Fn("h1"), Fn("h2")>>) }

ExecInputs ==
    { Obj([EmptyOptions EXCEPT !.source = Str(<<"a", " ", "b">>),
                               !.destination = Str(<<"d">>),
                               !.output = out]) : out \in OutputInputs }

Init ==
    /\ platform \in Platforms
    /\ inst = [i \in InstIds |-> NoInstance]
    /\ ctorArg = [i \in InstIds |-> NotConstructed]
    /\ thrown = [i \in InstIds |-> "none"]
    /\ lastArgs = [i \in InstIds |-> NotCalled]
    /\ lastCmd = [i \in InstIds |-> NotCalled]
    /\ lastStr = [i \in InstIds |-> NotCalled]
    /\ calls = <<>>
    /\ sinkLog = [h \in Handlers |-> <<>>]

\* Any 'close' code the model knows: an exit code, null, a negated errno.
CloseCodes ==
    {Num(n) : n \in ExitCodes} \cup {Null}
    \cup {e.errno : e \in SpawnErrors}

\* Spec: how one instance's execute() calls end. The children behave as the
\* process facility makes them: 'close' with the exit code of a child that
\* ran, 'error' and then 'close' for a child that could not be spawned.
\* Chunks are left out: no listener of a notification reads them.
Next ==
    \/ \E arg \in ExecInputs : New(1, arg)
    \/ \E so \in StdoutArgs, se \in StderrArgs, ok \in BOOLEAN :
           execute(1, so, se, ok)
    \/ \E c \in CallIds, code \in CloseCodes : ChildClose(c, code)
    \/ \E c \in CallIds, e \in SpawnErrors : ChildError(c, e)
    \/ PushSource(1)

Spec == Init /\ [][Next]_vars

\* The listeners run whenever they are notified, whatever the facility
\* promises about the order: 'close' and 'error' at most once each, in
\* either order, with any code.
AnyClose(c, code) ==
    /\ c \in 1..Len(calls)
    /\ ~HasNotified(calls[c], "close")
    /\ OnClose(c, code)

AnyError(c, error) ==
    /\ c \in 1..Len(calls)
    /\ ~HasNotified(calls[c], "error")
    /\ OnError(c, error)

\* SpecAnyOrder: one instance, the two notifications of every call in any
\* order, 'close' with an exit code or null.
NextAnyOrder ==
    \/ \E arg \in ExecInputs : New(1, arg)
    \/ \E so \in StdoutArgs, se \in StderrArgs : execute(1, so, se, TRUE)
    \/ \E c \in CallIds, code \in {Num(n) : n \in ExitCodes} \cup {Null} :
           AnyClose(c, code)
    \/ \E c \in CallIds, e \in SpawnErrors : AnyError(c, e)

SpecAnyOrder == Init /\ [][NextAnyOrder]_vars

\* SpecStream: the chunks of the children of one instance and the handlers
\* they reach. Every child is spawned and closes with an exit code.
NextStream ==
    \/ \E arg \in ExecInputs : New(1, arg)
    \/ \E so \in StdoutArgs, se \in StderrArgs : execute(1, so, se, TRUE)
    \/ \E c \in CallIds, s \in Streams : ChildData(c, s)
    \/ \E c \in CallIds, n \in ExitCodes : ChildClose(c, Num(n))

SpecStream == Init /\ [][NextStream]_vars

-----------------------------------------------------------------------------
(* Properties of execute().                                                *)

Calls == 1..Len(calls)

\* C1: whatever the order in which 'close' and 'error' arrive, the promise
\* of a call is settled at most once, by the outcome that the first
\* notification produced; it is pending as long as none has arrived.
\* Checked under SpecAnyOrder.
C1_FirstNotificationDecides ==
    \A c \in Calls :
        /\ Len(calls[c].produced) = Len(calls[c].notified)
        /\ IF calls[c].notified = <<>>
           THEN calls[c].promise = Pending
           ELSE calls[c].promise = calls[c].produced[1]

\* A call whose two notifications produced different outcomes.
C1_Witness ==
    \E c \in Calls :
        /\ Len(calls[c].produced) = 2
        /\ calls[c].produced[1] # calls[c].produced[2]
        /\ calls[c].promise.state = "rejected"
        /\ calls[c].produced[2].state = "fulfilled"

ClosedWith(call, code) ==
    \E k \in 1..Len(call.notified) :
        /\ call.notified[k].kind = "close"
        /\ call.notified[k].arg = code

\* C2: when the child reports exit code 0 the promise is fulfilled with a
\* result whose code is 0, and no fulfilled result has another code.
C2_ZeroExitFulfils ==
    \A c \in Calls :
        /\ ClosedWith(calls[c], Num(0)) =>
               /\ calls[c].promise.state = "fulfilled"
               /\ calls[c].promise.value.code = Num(0)
        /\ calls[c].promise.state = "fulfilled" =>
               calls[c].promise.value.code = Num(0)

\* A call fulfilled after its child exited with code 0.
C2_Witness ==
    \E c \in Calls :
        /\ ClosedWith(calls[c], Num(0))
        /\ calls[c].promise.state = "fulfilled"

\* The instance as it was when call c received its 'close' notification.
SelfAtClose(call) ==
    call.notified[CHOOSE k \in 1..Len(call.notified) :
                      call.notified[k].kind = "close"].self

\* C3: when the child reports a non-zero exit code N the promise is
\* rejected, never fulfilled, with an error whose code is N, whose message
\* is 'rsync exited with code N' and whose cmd is the command string of
\* the instance, command(), at that moment.
C3_NonZeroExitRejects ==
    \A c \in Calls :
        \A n \in ExitCodes \ {0} :
            (calls[c].spawned /\ ClosedWith(calls[c], Num(n))) =>
                calls[c].promise =
                    [state |-> "rejected",
                     value |-> [name |-> "Error",
                                message |->
                                    <<"r", "s", "y", "n", "c", " ",
                                      "e", "x", "i", "t", "e", "d", " ",
                                      "w", "i", "t", "h", " ",
                                      "c", "o", "d", "e", " ">> \o NumStr(n),
                                code |-> Num(n),
                                cmd |-> Str(command(SelfAtClose(calls[c])))]]

\* A call rejected after its child exited with a non-zero code.
C3_Witness ==
    \E c \in Calls :
        /\ calls[c].spawned
        /\ ClosedWith(calls[c], Num(23))
        /\ calls[c].promise.state = "rejected"
        /\ calls[c].promise.value.code = Num(23)

\* C4: when 'error' is the first notification of a call, the promise is
\* rejected with the very error received, nothing added to it, and the call
\* has spawned once.
C4_SpawnErrorPassedThrough ==
    \A c \in Calls :
        (calls[c].notified # <<>> /\ calls[c].notified[1].kind = "error") =>
            /\ calls[c].promise =
                   [state |-> "rejected", value |-> calls[c].notified[1].arg]
            /\ calls[c].promise.value \in SpawnErrors
            /\ calls[c].spawns = 1

\* A call whose spawn failed: 'error', then 'close'.
C4_Witness ==
    \E c \in Calls :
        /\ Len(calls[c].notified) = 2
        /\ calls[c].notified[1].kind = "error"
        /\ calls[c].notified[2].kind = "close"
        /\ calls[c].promise.state = "rejected"

\* C5: the cmd of the result, or of the exit-code error, is the string the
\* child was spawned with, whatever the caller did to the instance between
\* the spawn and the child's exit.
C5_CmdIsSpawnedString ==
    \A c \in Calls :
        (calls[c].notified # <<>> /\ calls[c].notified[1].kind = "close") =>
            calls[c].promise.value.cmd = Str(calls[c].cmd)

\* The chunks of stream s of call c that handler h was invoked with.
Delivered(h, c, s) ==
    LET mine == SelectSeq(sinkLog[h],
                          LAMBDA e : e.call = c /\ e.stream = s)
    IN [k \in 1..Len(mine) |-> mine[k].data]

\* C6: the chunks of each stream of a child reach the sink of that stream,
\* each once, unchanged and in arrival order, and reach no other handler;
\* without a sink for the stream they reach no handler. The sinks of a call
\* are the handlers of the instance when the call registers its listeners.
\* Checked under SpecStream.
C6_ChunksForwarded ==
    \A c \in Calls : \A s \in Streams : \A h \in Handlers :
        Delivered(h, c, s) =
            IF calls[c].sinks[s] = Fn(h) THEN calls[c].written[s] ELSE <<>>

\* A child that wrote two chunks on stdout and one call without a sink.
C6_Witness ==
    /\ \E c \in Calls :
           /\ Len(calls[c].written.stdout) = 2
           /\ calls[c].sinks.stdout = Fn("h3")
           /\ calls[c].sinks.stderr = Fn("h2")
           /\ Len(sinkLog["h3"]) = 2

\* The handler the `output` option configured for a stream.
Configured(i, s) ==
    IF ctorArg[i].t = "object"
    THEN HandlerAt(ctorArg[i].v.output, IF s = "stdout" THEN 1 ELSE 2)
    ELSE Null

\* C7: for each stream, a call that was given a callable forwards the
\* stream to it, and a call that was given none forwards it to the sink
\* configured through `output`. Checked under SpecStream.
C7_GivenElseConfigured ==
    \A c \in Calls : \A s \in Streams : \A h \in Handlers :
        LET expected == IF TypeOf(calls[c].given[s]) = "function"
                        THEN calls[c].given[s]
                        ELSE Configured(calls[c].inst, s)
        IN Delivered(h, c, s) =
               IF expected = Fn(h) THEN calls[c].written[s] ELSE <<>>

-----------------------------------------------------------------------------
(* Properties of the option tokens, checked under SpecBuild.               *)

\* t starts with p.
HasPrefix(t, p) == Len(t) >= Len(p) /\ SubSeq(t, 1, Len(p)) = p

\* The tokens of args() that come from the option mapping: those before the
\* exclude, include, source and destination tokens.
OptionTokens(r) ==
    SubSeq(r.value, 1,
           Len(r.value) - Len(r.self._excludes) - Len(r.self._includes)
               - Len(r.self._sources)
               - (IF r.self._destination = <<>> THEN 0 ELSE 1))

\* The entries of an option mapping that have a one-character key and no
\* value, and the others.
ShortKeyed(o) == {k \in 1..Len(o) : Len(o[k][1]) = 1 /\ o[k][2].t = "null"}
Separate(o) == (1..Len(o)) \ ShortKeyed(o)

\* -key or --key
Dashed(key) == (IF Len(key) = 1 THEN <<"-">> ELSE <<"-", "-">>) \o key

\* t is a token of its own for key: -key or --key, bare or with a value.
IsTokenOf(t, key) ==
    /\ HasPrefix(t, Dashed(key))
    /\ \/ Len(t) = Len(Dashed(key))
       \/ t[Len(Dashed(key)) + 1] = (IF Len(key) = 1 THEN " " ELSE "=")

\* C11: a key is in the combined short token exactly when it has one
\* character and no value; these keys form one token, '-' and the keys, that
\* exists only when there is such a key; every other key renders as tokens
\* of its own, and there is no further option token.
C11_ShortTokenMembership ==
    \A i \in InstIds :
        lastArgs[i].called =>
            LET o == lastArgs[i].self._options
                T == OptionTokens(lastArgs[i])
                nShort == IF ShortKeyed(o) = {} THEN 0 ELSE 1
                own == {<<k, j>> \in Separate(o) \X (1..2) :
                           j <= (IF IsArray(o[k][2]) THEN Len(o[k][2].v) ELSE 1)}
            IN /\ Len(T) = nShort + Cardinality(own)
               /\ nShort = 1 =>
                      /\ T[1][1] = "-"
                      /\ Len(T[1]) = 1 + Cardinality(ShortKeyed(o))
                      /\ {T[1][j] : j \in 2..Len(T[1])} =
                             {o[k][1][1] : k \in ShortKeyed(o)}
               /\ \A k \in Separate(o) :
                      (~IsArray(o[k][2]) \/ Len(o[k][2].v) > 0) =>
                          \E p \in (nShort + 1)..Len(T) : IsTokenOf(T[p], o[k][1])

\* args() called on a mapping with a short flag, a one-character key that
\* carries a value, and a long key without value.
C11_Witness ==
    \E i \in InstIds :
        /\ lastArgs[i].called
        /\ ShortKeyed(lastArgs[i].self._options) # {}
        /\ \E k \in Separate(lastArgs[i].self._options) :
               /\ Len(lastArgs[i].self._options[k][1]) = 1
               /\ Truthy(lastArgs[i].self._options[k][2])
        /\ \E k \in Separate(lastArgs[i].self._options) :
               /\ Len(lastArgs[i].self._options[k][1]) > 1
               /\ lastArgs[i].self._options[k][2].t = "null"

\* The characters of a `flags` value, as _processOptions walks them.
FlagList(flags) ==
    IF IsArray(flags)
    THEN [k \in 1..Len(flags.v) |-> flags.v[k].v[1]]
    ELSE flags.v

\* s without the repeated occurrences of a character.
FirstOccurrences(s) ==
    LET keep(k) == \A j \in 1..(k - 1) : s[j] # s[k]
        F[k \in 0..Len(s)] ==
            IF k = 0 THEN <<>>
            ELSE IF keep(k) THEN Append(F[k - 1], s[k]) ELSE F[k - 1]
    IN F[Len(s)]

\* The characters of s that are in set, in their order.
Only(s, set) ==
    LET F[k \in 0..Len(s)] ==
            IF k = 0 THEN <<>>
            ELSE IF s[k] \in set THEN Append(F[k - 1], s[k]) ELSE F[k - 1]
    IN F[Len(s)]

\* C12: with a `flags` value (and no `set`), every character of it is a
\* null-valued entry of the option mapping, the first token of args() is the
\* one combined short token and holds the characters of `flags` in the order
\* supplied, a repeated character once; no other option token is short.
C12_FlagsOneToken ==
    \A i \in InstIds :
        (/\ lastArgs[i].called
         /\ ctorArg[i].t = "object"
         /\ Truthy(ctorArg[i].v.flags)
         /\ ctorArg[i].v.set = Undef) =>
            LET given == FlagList(ctorArg[i].v.flags)
                o == lastArgs[i].self._options
                T == OptionTokens(lastArgs[i])
            IN /\ \A k \in 1..Len(given) :
                      \E e \in 1..Len(o) : o[e] = << <<given[k]>>, Null >>
               /\ Len(T) >= 1
               /\ T[1][1] = "-"
               /\ Only(Tail(T[1]), {given[k] : k \in 1..Len(given)}) =
                      FirstOccurrences(given)
               /\ \A p \in 2..Len(T) : HasPrefix(T[p], <<"-", "-">>)

\* The value an option mapping holds for key (the key is present).
ValueOf(o, key) == o[CHOOSE k \in 1..Len(o) : o[k][1] = key][2]

\* The option mapping the shorthand fields alone produce.
ShorthandOptions(options) == ProcessedOptions([options EXCEPT !.set = Undef])

\* C13: `set` is merged last. Every key of `set` holds the value `set`
\* gives it, whatever a shorthand field gave it before, and renders by that
\* value: without value (null, or the empty string) as a bare flag, with a
\* string value as a valued option; every other key keeps the value the
\* shorthand fields gave it.
C13_SetMergedLast ==
    \A i \in InstIds :
        (/\ lastArgs[i].called
         /\ ctorArg[i].t = "object"
         /\ Truthy(ctorArg[i].v.set)) =>
            LET given == ctorArg[i].v.set.v
                before == ShorthandOptions(ctorArg[i].v)
                o == lastArgs[i].self._options
                T == OptionTokens(lastArgs[i])
            IN /\ \A e \in 1..Len(given) :
                      /\ HasKey(o, given[e][1])
                      /\ ValueOf(o, given[e][1]) = given[e][2]
                      /\ IF Truthy(given[e][2])
                         THEN \E p \in 1..Len(T) :
                                  /\ IsTokenOf(T[p], given[e][1])
                                  /\ Len(T[p]) > Len(Dashed(given[e][1]))
                         ELSE IF Len(given[e][1]) = 1 /\ given[e][2] = Null
                              THEN /\ T[1][1] = "-" /\ T[1][2] # "-"
                                   /\ \E j \in 2..Len(T[1]) :
                                          <<T[1][j]>> = given[e][1]
                                   /\ \A p \in 2..Len(T) :
                                          ~IsTokenOf(T[p], given[e][1])
                              ELSE \E p \in 1..Len(T) :
                                       T[p] = Dashed(given[e][1])
               /\ \A k \in 1..Len(o) :
                      (\A e \in 1..Len(given) : given[e][1] # o[k][1]) =>
                          /\ HasKey(before, o[k][1])
                          /\ ValueOf(before, o[k][1]) = o[k][2]
               /\ \A k \in 1..Len(before) : HasKey(o, before[k][1])

\* args() called on an instance whose `set` gave a string to a key that a
\* shorthand field had set without value.
C13_Witness ==
    \E i \in InstIds :
        /\ lastArgs[i].called
        /\ ctorArg[i].t = "object"
        /\ Truthy(ctorArg[i].v.set)
        /\ \E e \in 1..Len(ctorArg[i].v.set.v) :
               LET key == ctorArg[i].v.set.v[e][1]
               IN /\ HasKey(ShorthandOptions(ctorArg[i].v), key)
                  /\ ValueOf(ShorthandOptions(ctorArg[i].v), key) = Null
                  /\ Truthy(ctorArg[i].v.set.v[e][2])
                  /\ Len(lastArgs[i].self._options) > Len(ctorArg[i].v.set.v)

\* --key=value for the elements of a sequence value, one token each.
ElementTokens(key, values) ==
    [j \in 1..Len(values) |->
        <<"-", "-">> \o key \o <<"=">> \o escapeShellArg(values[j].v)]

\* C14: an option whose value is a sequence of n strings renders as n
\* tokens --key=value, one per element, adjacent and in element order, and
\* no other token of args() belongs to that key; a scalar value renders as
\* exactly one token.
C14_OneTokenPerElement ==
    \A i \in InstIds :
        lastArgs[i].called =>
            LET o == lastArgs[i].self._options
                T == OptionTokens(lastArgs[i])
                mine(key) == {p \in 1..Len(T) : IsTokenOf(T[p], key)}
            IN \A k \in Separate(o) :
                   IF IsArray(o[k][2])
                   THEN LET n == Len(o[k][2].v)
                            want == ElementTokens(o[k][1], o[k][2].v)
                        IN /\ Cardinality(mine(o[k][1])) = n
                           /\ n > 0 =>
                                  \E p \in 1..(Len(T) - n + 1) :
                                      SubSeq(T, p, p + n - 1) = want
                   ELSE Cardinality(mine(o[k][1])) = 1

\* args() called on an instance whose chmod is a sequence of two strings.
C14_Witness ==
    \E i \in InstIds :
        /\ lastArgs[i].called
        /\ \E k \in 1..Len(lastArgs[i].self._options) :
               /\ IsArray(lastArgs[i].self._options[k][2])
               /\ Len(lastArgs[i].self._options[k][2].v) = 2
        /\ \E k \in Separate(lastArgs[i].self._options) :
               ~IsArray(lastArgs[i].self._options[k][2])

\* The token of one option as the rendering rule gives it: '-' or '--', the
\* key and, when a value is present (a non-empty string), a space or '='
\* and the option-escaped value.
RuleToken(key, value) ==
    LET prefix == IF Len(key) = 1 THEN <<"-">> ELSE <<"-", "-">>
        separator == IF Len(key) = 1 THEN <<" ">> ELSE <<"=">>
    IN IF value.t = "string" /\ value.v # <<>>
       THEN prefix \o key \o separator \o escapeShellArg(value.v)
       ELSE prefix \o key

\* The configuration of the second output test and the command it expects.
OutputCase2 ==
    [EmptyOptions EXCEPT
        !.flags = Str(<<"r", "a", "v">>),
        !.source = Str(<<"t", "e", "s", "t", "-", "d", "i", "r", "/">>),
        !.destination = Str(<<"t", "e", "s", "t", "-", "d", "i", "r", "-", "c", "o", "p", "y">>),
        !.set = Obj(<< <<<<"f">>, Str(<<"-", " ", ".", "g", "i", "t">>)>> >>)]

OutputCase2Expect == <<"r", "s", "y", "n", "c", " ", "-", "r", "a", "v", " ", "-", "f", " ", DQUOTE, "-", " ", ".", "g", "i", "t", DQUOTE, " ", "t", "e", "s", "t", "-", "d", "i", "r", "/", " ", "t", "e", "s", "t", "-", "d", "i", "r", "-", "c", "o", "p", "y">>

\* C15: every option that renders as a token of its own renders as '-'
\* (one-character key) or '--' (longer key), the key and, when a value is
\* present, one space (one-character key) or '=' (longer key) and the
\* option-escaped value; flags 'rav' with set {f: '- .git'} renders
\* -rav -f "- .git".
C15_TokenRule ==
    /\ command(_processOptions(Constructed(OutputCase2), OutputCase2)) =
           OutputCase2Expect
    /\ \A i \in InstIds :
           lastArgs[i].called =>
               LET o == lastArgs[i].self._options
                   T == OptionTokens(lastArgs[i])
               IN \A k \in Separate(o) :
                      IF IsArray(o[k][2])
                      THEN \A j \in 1..Len(o[k][2].v) :
                               \E p \in 1..Len(T) :
                                   T[p] = RuleToken(o[k][1], o[k][2].v[j])
                      ELSE \E p \in 1..Len(T) :
                               /\ T[p] = RuleToken(o[k][1], o[k][2])
                               /\ \A q \in 1..Len(T) :
                                      IsTokenOf(T[q], o[k][1]) => q = p

\* args() called on a mapping with a valued one-character key, a valued
\* longer key and a key whose value is the empty string.
C15_Witness ==
    \E i \in InstIds :
        /\ lastArgs[i].called
        /\ \E k \in Separate(lastArgs[i].self._options) :
               /\ Len(lastArgs[i].self._options[k][1]) = 1
               /\ Truthy(lastArgs[i].self._options[k][2])
        /\ \E k \in Separate(lastArgs[i].self._options) :
               /\ Len(lastArgs[i].self._options[k][1]) > 1
               /\ lastArgs[i].self._options[k][2].t = "string"
        /\ \E k \in Separate(lastArgs[i].self._options) :
               lastArgs[i].self._options[k][2] = Str(<<>>)

-----------------------------------------------------------------------------
(* The two escaping functions on arbitrary strings: the constructor is     *)
(* given one string in every field that is escaped, args() renders it.     *)

\* The characters the strings are made of: a plain one and the special ones.
EscChars ==
    {"a", " ", DQUOTE, "'", BACKTICK, BACKSLASH, "$", "(", ")", "\t", "\n"}

RECURSIVE EscStringsUpTo(_)
EscStringsUpTo(n) ==
    IF n = 0 THEN {<<>>}
    ELSE LET shorter == EscStringsUpTo(n - 1)
         IN shorter \cup {Append(s, c) : s \in shorter, c \in EscChars}

EscStrings == EscStringsUpTo(MaxLen)

\* One string as the remote shell, the source, the destination, the exclude
\* pattern and the include pattern.
EscapeOptions(s) ==
    [EmptyOptions EXCEPT
        !.shell = Str(s), !.source = Str(s), !.destination = Str(s),
        !.exclude = Str(s), !.include = Str(s)]

\* Drive-rooted Windows paths X:\seg1\...\segN.
Drives == {"C", "d"}
Segments == {<<>>, <<"h", "o", "m", "e">>, <<"a", " ", "b">>}

RECURSIVE SegmentLists(_)
SegmentLists(n) ==
    IF n = 0 THEN {<<>>}
    ELSE LET shorter == SegmentLists(n - 1)
         IN shorter \cup {Append(l, g) : l \in shorter, g \in Segments}

DrivePath(drive, segs) ==
    <<drive, ":">> \o Flatten([k \in 1..Len(segs) |-> <<BACKSLASH>> \o segs[k]])

\* A drive-rooted path as the only source and as the destination.
DriveOptions(drive, segs) ==
    [EmptyOptions EXCEPT
        !.source = Arr(<<Str(DrivePath(drive, segs))>>),
        !.destination = Str(DrivePath(drive, segs))]

EscapeInputs ==
    {Obj(EscapeOptions(s)) : s \in EscStrings}
    \cup {Obj(DriveOptions(d, l)) :
             d \in Drives, l \in SegmentLists(MaxSegs) \ {<<>>}}

NextEscape ==
    \/ /\ ctorArg[1] = NotConstructed
       /\ \E arg \in EscapeInputs : New(1, arg)
    \/ CallArgs(1)

SpecEscape == InitBuild /\ [][NextEscape]_vars

\* r is s with one backslash inserted before every character of s that is
\* in set, and nothing else changed.
IsBackslashed(r, s, set) ==
    LET n(i) == Cardinality({j \in 1..i : s[j] \in set})
    IN /\ Len(r) = Len(s) + n(Len(s))
       /\ \A i \in 1..Len(s) :
              /\ r[i + n(i)] = s[i]
              /\ s[i] \in set => r[i + n(i) - 1] = BACKSLASH

\* The string the constructor of slot i was given in its `shell` field.
GivenShell(i) == ctorArg[i].v.shell.v

\* C16: a value without double quote, single quote, backtick, backslash,
\* dollar sign and space is option-escaped to itself; any other value to
\* itself with a backslash before every double quote, single quote,
\* backtick, backslash and dollar sign, spaces as they are, between one
\* pair of double quotes.
C16_OptionEscaping ==
    \A i \in InstIds :
        (/\ lastArgs[i].called
         /\ ctorArg[i].t = "object"
         /\ Truthy(ctorArg[i].v.shell)) =>
            LET s == GivenShell(i)
                t == lastArgs[i].value[1]
                r == SubSeq(t, 7, Len(t))
                quoted == {DQUOTE, "'", BACKTICK, BACKSLASH, "$"}
            IN /\ HasPrefix(t, <<"-", "-", "r", "s", "h", "=">>)
               /\ IF \A k \in 1..Len(s) : s[k] \notin quoted \cup {" "}
                  THEN r = s
                  ELSE /\ Len(r) >= 2
                       /\ r[1] = DQUOTE
                       /\ r[Len(r)] = DQUOTE
                       /\ IsBackslashed(SubSeq(r, 2, Len(r) - 1), s, quoted)

\* args() has rendered a value that holds a space, a character that gets a
\* backslash and a plain character.
C16_Witness ==
    \E i \in InstIds :
        /\ lastArgs[i].called
        /\ ctorArg[i].t = "object"
        /\ Truthy(ctorArg[i].v.shell)
        /\ GivenShell(i) = <<"a", " ", "$">>

\* C17: on a host that is not Windows, a source, a destination, an include
\* and an exclude pattern are path-escaped to the input with one backslash
\* before every double quote, single quote, backtick, backslash, dollar
\* sign, parenthesis and whitespace character, nothing else changed and no
\* quotes around; a string without these characters is unchanged.
C17_PathEscaping ==
    \A i \in InstIds :
        (/\ platform # "win32"
         /\ lastArgs[i].called
         /\ ctorArg[i].t = "object"
         /\ ctorArg[i].v.source.t = "string"
         /\ ctorArg[i].v.source.v # <<>>) =>
            LET s == ctorArg[i].v.source.v
                A == lastArgs[i].value
                special == {DQUOTE, "'", BACKTICK, BACKSLASH, "$", "(", ")",
                            " ", "\t", "\n", "\r", "\f"}
                plain == \A k \in 1..Len(s) : s[k] \notin special
                ok(r) == IsBackslashed(r, s, special) /\ (plain => r = s)
            IN /\ Len(A) = 5
               /\ HasPrefix(A[2], <<"-", "-", "e", "x", "c", "l", "u", "d", "e", "=">>)
               /\ ok(SubSeq(A[2], 11, Len(A[2])))
               /\ HasPrefix(A[3], <<"-", "-", "i", "n", "c", "l", "u", "d", "e", "=">>)
               /\ ok(SubSeq(A[3], 11, Len(A[3])))
               /\ ok(A[4])
               /\ ok(A[5])

\* args() on a non-Windows host has rendered a path with a whitespace
\* character, a parenthesis and a plain character.
C17_Witness ==
    \E i \in InstIds :
        /\ platform = "linux"
        /\ lastArgs[i].called
        /\ ctorArg[i].t = "object"
        /\ ctorArg[i].v.source = Str(<<"\t", "a", "(">>)

\* The path of the Windows test and the token it expects.
Win32Case == <<"C", ":", BACKSLASH, "h", "o", "m", "e", BACKSLASH, "u", "s", "e", "r", "n", "a", "m", "e", BACKSLASH, "d", "e", "v", "e", "l", "o", "p", BACKSLASH, "r", "e", "a", "d", "m", "e", ".", "t", "x", "t">>
Win32CaseExpect == <<"/", "h", "o", "m", "e", "/", "u", "s", "e", "r", "n", "a", "m", "e", "/", "d", "e", "v", "e", "l", "o", "p", "/", "r", "e", "a", "d", "m", "e", ".", "t", "x", "t">>

\* /seg1/.../segN, every segment path-escaped.
PosixPath(segs) ==
    Flatten([k \in 1..Len(segs) |->
                <<"/">> \o BackslashEach(segs[k], FileSpecial)])

\* C18: on the Windows-style host a drive-rooted path X:\seg1\...\segN,
\* given as a source or as the destination, renders as /seg1/.../segN: one
\* forward slash for every backslash separator, the drive prefix removed.
C18_DrivePathToPosix ==
    /\ escapeFileArgOn("win32", Win32Case) = Win32CaseExpect
    /\ \A i \in InstIds :
           (platform = "win32" /\ lastArgs[i].called) =>
               \A d \in Drives, l \in SegmentLists(MaxSegs) \ {<<>>} :
                   ctorArg[i] = Obj(DriveOptions(d, l)) =>
                       lastArgs[i].value = <<PosixPath(l), PosixPath(l)>>

\* args() on the Windows-style host has rendered a drive-rooted path of two
\* segments.
C18_Witness ==
    \E i \in InstIds :
        /\ platform = "win32"
        /\ lastArgs[i].called
        /\ ctorArg[i] = Obj(DriveOptions("C", <<<<"h", "o", "m", "e">>, <<"a", " ", "b">>>>))
        /\ Len(lastArgs[i].value) = 2

-----------------------------------------------------------------------------
(* Properties of command() and of the accessors.                           *)

\* The options the constructor of slot i worked on.
GivenOptions(i) ==
    IF ctorArg[i].t = "undefined" THEN EmptyOptions ELSE ctorArg[i].v

\* The sources and the destination as the caller gave them, the empty
\* destination left out.
GivenPaths(options) ==
    (IF Truthy(options.source) THEN AsList(options.source) ELSE <<>>)
    \o (IF Truthy(options.destination) THEN <<options.destination.v>> ELSE <<>>)

\* C19: without options, flags, includes and excludes, command() is the
\* executable, one space, the path-escaped sources in the given order and
\* the path-escaped destination last (left out when empty), single spaces
\* between them and nothing else.
C19_BasicCommand ==
    \A i \in InstIds :
        (/\ lastCmd[i].called
         /\ lastCmd[i].self._options = <<>>
         /\ lastCmd[i].self._excludes = <<>>
         /\ lastCmd[i].self._includes = <<>>) =>
            LET options == GivenOptions(i)
                exe == IF Truthy(options.executable)
                       THEN options.executable.v
                       ELSE <<"r", "s", "y", "n", "c">>
                paths == GivenPaths(options)
            IN lastCmd[i].value =
                   IF paths = <<>>
                   THEN exe \o <<" ">>
                   ELSE exe \o Flatten([k \in 1..Len(paths) |->
                                           <<" ">> \o escapeFileArg(paths[k])])

\* command() called on an instance with two sources, one of them with a
\* space, a destination and nothing else.
C19_Witness ==
    \E i \in InstIds :
        /\ lastCmd[i].called
        /\ lastCmd[i].self._options = <<>>
        /\ lastCmd[i].self._excludes = <<>>
        /\ lastCmd[i].self._includes = <<>>
        /\ Len(lastCmd[i].self._sources) = 2
        /\ lastCmd[i].self._destination # <<>>
        /\ \E k \in 1..2 : Contains(lastCmd[i].self._sources[k], {" "})

\* The instance as its constructor left it.
AsConstructed(i) ==
    _processOptions(Constructed(GivenOptions(i)), GivenOptions(i))

\* C20: the configuration is read-only after construction; whatever the
\* caller does with a value an accessor returned, args() and command()
\* return what they returned right after construction.
C20_AccessorsExposeCopies ==
    \A i \in InstIds :
        inst[i].exists =>
            /\ args(inst[i]) = args(AsConstructed(i))
            /\ command(inst[i]) = command(AsConstructed(i))

-----------------------------------------------------------------------------
(* Overlapping executions, on one instance and on two.                     *)

\* SpecIndep: two instances, their execute() calls in any interleaving, the
\* chunks and the notifications of the children in any interleaving.
NextIndep ==
    \/ \E i \in InstIds :
           /\ ctorArg[i] = NotConstructed
           /\ \E arg \in ExecInputs : New(i, arg)
    \/ \E i \in InstIds, so \in StdoutArgs, ok \in BOOLEAN :
           execute(i, so, Undef, ok)
    \/ \E c \in CallIds : ChildData(c, "stdout")
    \/ \E c \in CallIds, code \in CloseCodes : ChildClose(c, code)
    \/ \E c \in CallIds, e \in SpawnErrors : ChildError(c, e)

SpecIndep == Init /\ [][NextIndep]_vars

\* What the listener of a notification passes to resolve or reject.
OutcomeOf(n) ==
    IF n.kind = "close"
    THEN CloseOutcome(n.self, n.arg)
    ELSE ErrorOutcome(n.self, n.arg)

\* C21: overlapping execute() calls, on one instance or on two, are
\* independent: every call has spawned one child of its own, its promise is
\* pending until a notification of its own child arrives and then holds the
\* outcome of the first of them, and the chunks of its child reach the
\* handlers its own listeners were registered with and no other.
C21_CallsIndependent ==
    \A c \in Calls :
        /\ calls[c].spawns = 1
        /\ calls[c].promise =
               IF calls[c].notified = <<>>
               THEN Pending
               ELSE LET o == OutcomeOf(calls[c].notified[1])
                    IN [state |-> o.state, value |-> o.value]
        /\ \A s \in Streams : \A h \in Handlers :
               Delivered(h, c, s) =
                   IF calls[c].listener[s] = Fn(h)
                   THEN calls[c].written[s] ELSE <<>>

\* Two calls on the same instance overlap: the first is still pending and
\* has received a chunk after the second changed the handler of the
\* instance, and the second has been settled.
C21_Witness ==
    /\ Len(calls) = 2
    /\ calls[1].inst = calls[2].inst
    /\ calls[1].promise = Pending
    /\ calls[2].promise.state = "fulfilled"
    /\ calls[1].listener.stdout # calls[2].listener.stdout
    /\ Len(calls[1].written.stdout) = 1
    /\ calls[1].written.stdout[1][2] = 1
    /\ Len(calls[2].written.stdout) = 1

-----------------------------------------------------------------------------
(* Edge cases of the builder.                                              *)

\* The option mapping with null in the place of every empty-string value.
EmptyAsNull(o) ==
    [k \in 1..Len(o) |-> IF o[k][2] = Str(<<>>) THEN <<o[k][1], Null>> ELSE o[k]]

\* C22: an option whose value is the empty string renders as if it had no
\* value: args() returns what it returns with null in the place of the
\* empty string, and no token of that key ends in '=' or a space.
C22_EmptyValueAsNull ==
    \A i \in InstIds :
        lastArgs[i].called =>
            LET self == lastArgs[i].self
            IN /\ lastArgs[i].value =
                      args([self EXCEPT !._options = EmptyAsNull(@)])
               /\ \A k \in 1..Len(self._options) :
                      self._options[k][2] = Str(<<>>) =>
                          \E p \in 1..Len(lastArgs[i].value) :
                              lastArgs[i].value[p] = Dashed(self._options[k][1])

\* s is a drive-letter-rooted path X:\...
IsDriveRooted(s) ==
    /\ Len(s) >= 3
    /\ s[1] \in Letters
    /\ s[2] = ":"
    /\ s[3] = BACKSLASH

\* The one source the constructor of slot i was given.
GivenSource(i) ==
    IF IsArray(ctorArg[i].v.source)
    THEN ctorArg[i].v.source.v[1].v
    ELSE ctorArg[i].v.source.v

\* C23: unless the host is the Windows-style platform and the path is
\* drive-letter-rooted, the token of a source and of the destination is the
\* plain path-escaped string: no backslash becomes a forward slash and
\* nothing is removed. Checked under SpecEscape.
C23_RewriteOnlyDriveRooted ==
    \A i \in InstIds :
        (/\ lastArgs[i].called
         /\ ctorArg[i].t = "object"
         /\ Truthy(ctorArg[i].v.source)
         /\ ~(platform = "win32" /\ IsDriveRooted(GivenSource(i)))) =>
            LET A == lastArgs[i].value
                plain == BackslashEach(GivenSource(i), FileSpecial)
            IN /\ A[Len(A) - 1] = plain
               /\ A[Len(A)] = plain


\* ---------------------------------------------------------------------------
\* The builder observed through all three of its entry points, on an instance
\* whose sources also change between calls.
CallInputs == ExecInputs \cup NonObjectInputs

NextCalls ==
    \/ /\ ctorArg[1] = NotConstructed
       /\ \E arg \in CallInputs : New(1, arg)
    \/ CallArgs(1)
    \/ CallCommand(1)
    \/ CallToString(1)
    \/ PushSource(1)

SpecCalls == InitBuild /\ [][NextCalls]_vars

\* A builder call returned: one of the recorded results changed.
BuilderReturned(i) ==
    \/ lastArgs'[i] # lastArgs[i]
    \/ lastCmd'[i] # lastCmd[i]
    \/ lastStr'[i] # lastStr[i]

\* C24: args(), command() and toString() have no side effect: a call leaves
\* the instance, the platform and every execution as they were, so repeated
\* calls without an intervening state change render the same result, and the
\* string toString() returned is the string command() returned on the same
\* instance state.
C24_BuilderSideEffectFree ==
    [][\A i \in InstIds :
          /\ BuilderReturned(i) =>
                 /\ inst' = inst
                 /\ platform' = platform
                 /\ calls' = calls
                 /\ sinkLog' = sinkLog
          /\ (/\ lastStr'[i].called
              /\ lastCmd'[i].called
              /\ lastStr'[i].self = lastCmd'[i].self) =>
                 lastStr'[i].value = lastCmd'[i].value]_vars

C24_Witness ==
    /\ lastArgs[1].called
    /\ lastCmd[1].called
    /\ lastStr[1].called
    /\ Len(inst[1]._sources) > 1
    /\ lastStr[1].self = inst[1]
    /\ lastCmd[1].self = inst[1]
    /\ lastArgs[1].self = inst[1]

\* C25: every execute() call has spawned exactly one child, whatever
\* notifications have arrived since (no retry); its promise is pending
\* exactly as long as neither 'close' nor 'error' has arrived, and settled
\* from the first notification on.
C25_OneChildSettledOnNotification ==
    \A c \in Calls :
        /\ calls[c].spawns = 1
        /\ calls[c].promise = Pending <=> calls[c].notified = <<>>
        /\ calls[c].promise.state \in {"pending", "fulfilled", "rejected"}

C25_Witness ==
    \E c, d \in Calls :
        /\ ~calls[c].spawned
        /\ HasNotified(calls[c], "error")
        /\ HasNotified(calls[c], "close")
        /\ calls[c].promise.state = "rejected"
        /\ calls[d].spawned
        /\ calls[d].notified = <<>>
        /\ calls[d].promise = Pending

\* The calls on the instance of call c, up to c itself, that were given a
\* callable for stream s.
GivenUpTo(c, s) ==
    {d \in 1..c : /\ calls[d].inst = calls[c].inst
                  /\ TypeOf(calls[d].given[s]) = "function"}

\* The sink in effect for stream s of call c: the callable most recently
\* passed to execute() on the instance, else the one `output` configured.
InEffect(c, s) ==
    IF GivenUpTo(c, s) = {}
    THEN Configured(calls[c].inst, s)
    ELSE calls[CHOOSE d \in GivenUpTo(c, s) :
                   \A e \in GivenUpTo(c, s) : e <= d].given[s]

\* C26: a sink passed to execute() stays in effect on the instance: the
\* chunks of a stream of a call reach the callable most recently passed for
\* that stream to this call or an earlier call on the instance, and reach
\* the sink configured through `output` only when no call has passed one.
\* Checked under SpecStream.
C26_PassedSinkPersists ==
    \A c \in Calls : \A s \in Streams : \A h \in Handlers :
        Delivered(h, c, s) =
            IF InEffect(c, s) = Fn(h) THEN calls[c].written[s] ELSE <<>>

\* The second call was given no callable for stdout and its chunk reached the
\* callable the first call was given, not the configured sink.
C26_Witness ==
    /\ Len(calls) = 2
    /\ Configured(1, "stdout") = Fn("h1")
    /\ calls[1].given.stdout = Fn("h3")
    /\ calls[2].given.stdout = Undef
    /\ Len(calls[2].written.stdout) = 1
    /\ Delivered("h3", 2, "stdout") = calls[2].written.stdout
    /\ Delivered("h1", 2, "stdout") = <<>>

\* The chunks of stream s of call c have all reached the listener that the
\* call registered on it, and no other handler.
AllForwarded(c, s) ==
    \A h \in Handlers :
        Delivered(h, c, s) =
            IF calls[c].listener[s] = Fn(h) THEN calls[c].written[s] ELSE <<>>

\* C27: the outcome is decided on 'close', after the streams of the child
\* have ended: at the step that settles the promise by an exit code every
\* chunk the child wrote has already been forwarded, and from then on no
\* step writes a chunk of that call or invokes a handler with one.
\* Checked under SpecStream.
C27_NoSinkAfterClose ==
    [][\A c \in Calls : \A s \in Streams :
          /\ (~HasNotified(calls[c], "close")
                  /\ HasNotified(calls'[c], "close")) =>
                 /\ calls[c].promise = Pending
                 /\ calls'[c].promise.state \in {"fulfilled", "rejected"}
                 /\ AllForwarded(c, s)
                 /\ AllForwarded(c, s)'
          /\ HasNotified(calls[c], "close") =>
                 /\ calls'[c].written[s] = calls[c].written[s]
                 /\ calls'[c].promise = calls[c].promise
                 /\ \A h \in Handlers :
                        Delivered(h, c, s)' = Delivered(h, c, s)]_vars

\* The first call was settled by its exit code after a chunk of each of its
\* streams was forwarded, and a second call has been made since.
C27_Witness ==
    /\ Len(calls) = 2
    /\ ClosedWith(calls[1], Num(0))
    /\ calls[1].promise.state = "fulfilled"
    /\ Len(calls[1].written.stdout) = 1
    /\ Len(calls[1].written.stderr) = 1
    /\ calls[1].listener.stdout = Fn("h3")
    /\ Delivered("h3", 1, "stdout") = calls[1].written.stdout
    /\ calls[2].promise = Pending

\* C28: when the child of a call closes without an exit code (code null, a
\* signal ended it), the promise is rejected, never fulfilled, with an error
\* whose code is -1, whose message is 'rsync exited with code null' and
\* whose cmd is the command string of the instance at that moment.
\* Checked under Spec.
C28_NullCodeRejects ==
    \A c \in Calls :
        (calls[c].spawned /\ ClosedWith(calls[c], Null)) =>
            /\ calls[c].promise.state = "rejected"
            /\ calls[c].promise.value.name = "Error"
            /\ calls[c].promise.value.code = Num(0 - 1)
            /\ calls[c].promise.value.message =
                   <<"r", "s", "y", "n", "c", " ",
                     "e", "x", "i", "t", "e", "d", " ",
                     "w", "i", "t", "h", " ",
                     "c", "o", "d", "e", " ", "n", "u", "l", "l">>
            /\ calls[c].promise.value.cmd =
                   Str(command(SelfAtClose(calls[c])))

\* A child that a signal ended, on an instance whose sources were changed
\* after execute() was called.
C28_Witness ==
    \E c \in Calls :
        /\ calls[c].spawned
        /\ ClosedWith(calls[c], Null)
        /\ calls[c].promise.state = "rejected"
        /\ calls[c].promise.value.code = Num(0 - 1)
        /\ command(SelfAtClose(calls[c])) # calls[c].cmd
=============================================================================
